---- MODULE Spec2Model ----
(***************************************************************************)
(* robotframework-tools: the dynamic Test Library framework                *)
(* (robottools.library), its Keyword decorator (robottools.library.        *)
(* keywords) and the RemoteRobot bridge (robottools.remote).               *)
(*                                                                         *)
(* Strings that the name conversion works on (Keyword names) are sequences *)
(* of one-character strings; all other names are plain strings.            *)
(***************************************************************************)
EXTENDS Naturals, Sequences, FiniteSets, TLC

VARIABLES
  clsKeywords,  \* type(self).keywords: the Test Library class' KeywordsDict
  clsHandlers,  \* the context_handlers and session_handlers of the class
  keyword,      \* the Keyword decorator instance at hand: the Test Library
                \* class' .keyword or one made from it by its options
  inst,         \* the Test Library instances: their instance attributes
  handlers,     \* the handler classes: their class attributes
  threads,      \* the request handler threads of a threading server
  result        \* the outcome of the last call

vars == <<clsKeywords, clsHandlers, keyword, inst, handlers, threads, result>>

----------------------------------------------------------------------------
(* Bounds of the model *)

MaxOptions == 2   \* the options added to a Keyword decorator
MaxInstances == 2 \* the Test Library instances
MaxSessions == 2  \* the session names in use
MaxPayloads == 2  \* the distinguishable session objects per name
MaxLibraries == 2 \* the libraries a RemoteRobot is given
MaxThreads == 2   \* the concurrent request handler threads

----------------------------------------------------------------------------
(* Values *)

None == <<>>
Some(x) == <<x>>

NoResult == [op |-> "none", via |-> 0, arg |-> None, err |-> "", ret |-> None]

Returned(op, via, arg, ret) ==
  [op |-> op, via |-> via, arg |-> arg, err |-> "", ret |-> ret]

Raised(op, via, arg, err) ==
  [op |-> op, via |-> via, arg |-> arg, err |-> err, ret |-> None]

Last(s) == s[Len(s)]
Front(s) == SubSeq(s, 1, Len(s) - 1)

elements(list) == {list[i] : i \in 1..Len(list)}

\* The orders in which the elements of a set can be gone through
orders(S) ==
  {o \in [1..Cardinality(S) -> S] :
     \A i, j \in 1..Cardinality(S) : o[i] = o[j] => i = j}

----------------------------------------------------------------------------
(* moretools.camelize, the key_to_attr conversion of KeywordsDict *)

LowerCase ==
  <<"a", "b", "c", "d", "e", "f", "g", "h", "i", "j", "k", "l", "m",
    "n", "o", "p", "q", "r", "s", "t", "u", "v", "w", "x", "y", "z">>

UpperCase ==
  <<"A", "B", "C", "D", "E", "F", "G", "H", "I", "J", "K", "L", "M",
    "N", "O", "P", "Q", "R", "S", "T", "U", "V", "W", "X", "Y", "Z">>

upper(c) ==
  IF \E i \in 1..Len(LowerCase) : LowerCase[i] = c
  THEN UpperCase[CHOOSE i \in 1..Len(LowerCase) : LowerCase[i] = c]
  ELSE c

RECURSIVE camelizeFrom(_, _)
camelizeFrom(s, atWordStart) ==
  IF s = <<>> THEN <<>>
  ELSE IF Head(s) = "_" THEN camelizeFrom(Tail(s), TRUE)
  ELSE <<(IF atWordStart THEN upper(Head(s)) ELSE Head(s))>>
       \o camelizeFrom(Tail(s), FALSE)

camelize(key) == camelizeFrom(key, TRUE)

----------------------------------------------------------------------------
(* The order of str values: by the codes of their characters *)

\* The characters of Keyword names by their codes: A-Z, _, a-z
Characters == UpperCase \o <<"_">> \o LowerCase

ord(c) == CHOOSE i \in 1..Len(Characters) : Characters[i] = c

\* a <= b
RECURSIVE le(_, _)
le(a, b) ==
  IF a = <<>> THEN TRUE
  ELSE IF b = <<>> THEN FALSE
  ELSE IF Head(a) = Head(b) THEN le(Tail(a), Tail(b))
  ELSE ord(Head(a)) < ord(Head(b))

\* sorted(list): the smallest value first, equal values kept
RECURSIVE sorted(_)
sorted(list) ==
  IF list = <<>> THEN <<>>
  ELSE LET m == CHOOSE i \in 1..Len(list) :
                  \A j \in 1..Len(list) :
                    le(list[i], list[j]) /\ (list[j] = list[i] => i <= j)
       IN <<list[m]>>
          \o sorted([i \in 1..(Len(list) - 1) |->
                       IF i < m THEN list[i] ELSE list[i + 1]])

----------------------------------------------------------------------------
(* Keyword names and method functions *)

go_up == <<"g", "o", "_", "u", "p">>
hi == <<"h", "i">>
open_db == <<"o", "p", "e", "n", "_", "d", "b">>
switch_db == <<"s", "w", "i", "t", "c", "h", "_", "d", "b">>
close_db == <<"c", "l", "o", "s", "e", "_", "d", "b">>
switch_mode == <<"s", "w", "i", "t", "c", "h", "_", "m", "o", "d", "e">>
stop_remote_server ==
  <<"s", "t", "o", "p", "_", "r", "e", "m", "o", "t", "e", "_",
    "s", "e", "r", "v", "e", "r">>

\* A function object: the method it was defined as and the option wrappers
\* put around it, innermost first.
Function(base) == [base |-> base, wraps |-> <<>>]

func_name(func) == func.base

----------------------------------------------------------------------------
(* KeywordsDict: a moretools.simpledict, an item mapping that iterates its *)
(* (key, value) pairs and converts only attribute names. It is not asked   *)
(* to be an ordered mapping, so the order of its iteration is any.         *)

KeywordsDict == <<>>

\* str(name) of a Keyword name
RECURSIVE str(_)
str(name) == IF name = <<>> THEN "" ELSE Head(name) \o str(Tail(name))

\* for name, value in table: the orders in which the keys can come
keys(table) == orders(DOMAIN table)

hasKey(table, key) == key \in DOMAIN table

getitem(table, key) == table[key]

\* dir(table): the attribute names of the keys, sorted by the builtin dir
dir(table) ==
  LET o == CHOOSE o \in keys(table) : TRUE
  IN sorted([i \in 1..Len(o) |-> camelize(o[i])])

\* <table>.<name>: the value stored under the key of an attribute name in
\* lower case, which is the name itself
KeywordsDict_getattr(table, name) ==
  IF hasKey(table, name)
  THEN [err |-> "", value |-> Some(getitem(table, name))]
  ELSE [err |-> "AttributeError", value |-> None]

----------------------------------------------------------------------------
(* KeywordDecoratorType *)

\* The options given to testlibrary(register_keyword_options=...): each
\* appends its own name to what the method returns.
RegisteredOptions == {"A", "B"}

\* hasattr(type(self), 'option_' + name)
hasOption(name) == name \in RegisteredOptions \cup {"unicode_to_str"}

applyOption(optionname, func) ==
  [func EXCEPT !.wraps = Append(@, optionname)]

\* KeywordDecoratorType.__init__: the decorator, or the first invalid option
KeywordDecoratorType_init(options) ==
  IF \E i \in 1..Len(options) : ~hasOption(options[i])
  THEN [err |-> "InvalidKeywordOption",
        arg |-> options[CHOOSE i \in 1..Len(options) :
                  /\ ~hasOption(options[i])
                  /\ \A j \in 1..(i - 1) : hasOption(options[j])],
        decorator |-> None]
  ELSE [err |-> "", arg |-> None, decorator |-> Some([options |-> options])]

\* KeywordDecoratorType.__getattr__
KeywordDecoratorType_getattr(self, name) ==
  IF ~hasOption(name)
  THEN [err |-> "AttributeError", arg |-> name, decorator |-> None]
  ELSE KeywordDecoratorType_init(<<name>> \o self.options)

\* The attributes that every instance of a class derived from object has
ObjectAttributes ==
  {"__class__", "__delattr__", "__dict__", "__doc__", "__format__",
   "__getattribute__", "__hash__", "__init__", "__module__", "__new__",
   "__reduce__", "__reduce_ex__", "__repr__", "__setattr__", "__sizeof__",
   "__str__", "__subclasshook__", "__weakref__"}

\* The attributes of a decorator that the normal lookup finds: those that
\* __init__ sets, the properties, the methods and the option_ functions of
\* its class, and those of object. __getattr__ is called for no name of
\* these.
DecoratorAttributes ==
  {"librarycls", "options", "no_options", "reset_options",
   "__call__", "__getattr__"}
  \cup {"option_" \o n : n \in RegisteredOptions \cup {"unicode_to_str"}}
  \cup ObjectAttributes

\* keyword.<name>: the attribute that the normal lookup finds, or else
\* __getattr__(name). The properties no_options and reset_options give
\* type(self)(self.librarycls), a decorator without options.
KeywordDecoratorType_getattribute(self, librarycls, name) ==
  IF name \in {"no_options", "reset_options"}
  THEN [err |-> "", arg |-> name,
        decorator |-> KeywordDecoratorType_init(<<>>).decorator,
        value |-> None]
  ELSE IF name = "options"
  THEN [err |-> "", arg |-> name, decorator |-> None,
        value |-> Some(self.options)]
  ELSE IF name = "librarycls"
  THEN [err |-> "", arg |-> name, decorator |-> None,
        value |-> Some(librarycls)]
  ELSE IF name \in DecoratorAttributes
  THEN [err |-> "", arg |-> name, decorator |-> None,
        value |-> Some([attribute |-> name])]
  ELSE LET r == KeywordDecoratorType_getattr(self, name)
       IN [err |-> r.err, arg |-> name, decorator |-> r.decorator,
           value |-> None]

RECURSIVE applyOptions(_, _)
applyOptions(options, func) ==
  IF options = <<>> THEN func
  ELSE applyOptions(Tail(options), applyOption(Head(options), func))

\* The attribute name 'keywords'
keywords_attr == <<"k", "e", "y", "w", "o", "r", "d", "s">>

\* KeywordDecoratorType.__call__ of a decorator whose librarycls is the
\* KeywordsDict that testlibrary() made it with: the options are applied,
\* then self.librarycls.keywords is looked up, an attribute of the
\* KeywordsDict. There is none unless a value is stored under that very key,
\* and such a value is a function, which takes no item. Nothing is stored.
KeywordDecoratorType_call(self, librarycls, func, name) ==
  LET wrapped == applyOptions(self.options, func)
      key == IF name = None \/ name[1] = <<>>
             THEN func_name(wrapped) ELSE name[1]
      attr == KeywordsDict_getattr(librarycls, keywords_attr)
  IN [err |-> IF attr.err # "" THEN attr.err ELSE "TypeError",
      func |-> wrapped, key |-> key, keywords |-> librarycls]

----------------------------------------------------------------------------
(* Session handlers: the class attributes .sessions, .session and          *)
(* .keywords, and the open/switch/close operations of the class.           *)

SessionHandlers == {"Db"}

SessionNameOf == <<"a", "b", "c", "d">>
SessionNames == {SessionNameOf[i] : i \in 1..MaxSessions}
Payloads == 1..MaxPayloads

Session(name, payload) == [name |-> name, payload |-> payload]

NoSessions == [n \in {} |-> None]

SessionHandler(handler_keywords) ==
  [sessions |-> NoSessions, session |-> None, keywords |-> handler_keywords]

\* An open that replaces a session of the same name
SessionHandler_open_replacing(h, name, payload) ==
  LET s == Session(name, payload)
  IN [err |-> "",
      h |-> [h EXCEPT
               !.sessions = [n \in DOMAIN h.sessions \cup {name} |->
                               IF n = name THEN s ELSE h.sessions[n]],
               !.session = Some(s)]]

SessionHandler_open(h, name, payload) ==
  IF name \in DOMAIN h.sessions
  THEN [err |-> "DuplicateSessionError", h |-> h]
  ELSE LET s == Session(name, payload)
       IN [err |-> "",
           h |-> [h EXCEPT
                    !.sessions = [n \in DOMAIN h.sessions \cup {name} |->
                                    IF n = name THEN s ELSE h.sessions[n]],
                    !.session = Some(s)]]

SessionHandler_switch(h, name) ==
  IF name \notin DOMAIN h.sessions
  THEN [err |-> "NoSuchSessionError", h |-> h]
  ELSE [err |-> "", h |-> [h EXCEPT !.session = Some(h.sessions[name])]]

\* A close that leaves the current session as it is
SessionHandler_close_keeping_current(h, name) ==
  LET target == IF name # None THEN name
                ELSE IF h.session # None THEN Some(h.session[1].name)
                ELSE None
  IN IF target = None \/ target[1] \notin DOMAIN h.sessions
     THEN [err |-> "NoActiveSessionError", h |-> h]
     ELSE [err |-> "",
           h |-> [h EXCEPT
                    !.sessions = [n \in DOMAIN h.sessions \ {target[1]} |->
                                    h.sessions[n]]]]

\* close(name=None): the named session or, without a name, the current one
SessionHandler_close(h, name) ==
  LET target == IF name # None THEN name
                ELSE IF h.session # None THEN Some(h.session[1].name)
                ELSE None
  IN IF target = None \/ target[1] \notin DOMAIN h.sessions
     THEN [err |-> "NoActiveSessionError", h |-> h]
     ELSE [err |-> "",
           h |-> [h EXCEPT
                    !.sessions = [n \in DOMAIN h.sessions \ {target[1]} |->
                                    h.sessions[n]],
                    !.session = IF h.session = Some(h.sessions[target[1]])
                                THEN None ELSE h.session]]

\* testlibrary.session: the property giving the currently active session
session(h) ==
  IF h.session = None
  THEN [err |-> "SessionError: No active session.", ret |-> None]
  ELSE [err |-> "", ret |-> h.session]

\* the property giving the handler's dictionary of running sessions
sessions(h) == h.sessions

----------------------------------------------------------------------------
(* Context handlers: one context object per handler in self.contexts *)

ContextHandlers == <<"Mode">>
ContextNames == {"default", "fast"}

ContextHandler(handler_keywords) == [keywords |-> handler_keywords]

Context(handler, name) == [handler |-> handler, name |-> name]

default(handler) == Context(handler, "default")

\* testlibrary.context: the property giving the active context's name
context(contexts, cls) ==
  IF contexts # None
       /\ \E i \in 1..Len(contexts[1]) : contexts[1][i].handler = cls
  THEN [err |-> "",
        ret |-> Some(contexts[1][CHOOSE i \in 1..Len(contexts[1]) :
                  /\ contexts[1][i].handler = cls
                  /\ \A j \in 1..(i - 1) : contexts[1][j].handler # cls].name)]
  ELSE [err |-> "RuntimeError", ret |-> None]

ContextHandler_switch(contexts, cls, name) ==
  [i \in 1..Len(contexts) |->
     IF contexts[i].handler = cls THEN Context(cls, name) ELSE contexts[i]]

----------------------------------------------------------------------------
(* Calling a Keyword method function *)

Str(v) == [t |-> "str", v |-> v]
Unicode(v) == [t |-> "unicode", v |-> v]

\* Texts with a character that is not ASCII
NonAscii == {"\\xe9"}

\* type(a) is unicode and str(a) or a: str(a) of a unicode value that is
\* not ASCII raises UnicodeEncodeError, and the empty unicode value, whose
\* str is false, is handed on as it is
to_str(a) ==
  IF a.t = "unicode" /\ a.v \in NonAscii
  THEN [err |-> "UnicodeEncodeError", value |-> a]
  ELSE IF a.t = "unicode" /\ a.v # ""
  THEN [err |-> "", value |-> Str(a.v)]
  ELSE [err |-> "", value |-> a]

Outcome(err, ret, hs, contexts) ==
  [err |-> err, ret |-> ret, handlers |-> hs, contexts |-> contexts]

\* The method functions themselves. hs are the handlers' class attributes
\* and contexts is self.contexts of the library instance.
callMethod(base, args, hs, contexts) ==
  CASE base = go_up ->
         Outcome("", <<[hello |-> args[1]]>>, hs, contexts)
    [] base = open_db ->
         LET r == SessionHandler_open(hs["Db"], args[1].v, args[2].v)
         IN Outcome(r.err, None, [hs EXCEPT !["Db"] = r.h], contexts)
    [] base = switch_db ->
         LET r == SessionHandler_switch(hs["Db"], args[1].v)
         IN Outcome(r.err, None, [hs EXCEPT !["Db"] = r.h], contexts)
    [] base = close_db ->
         LET r == SessionHandler_close(
                    hs["Db"], IF args = <<>> THEN None ELSE Some(args[1].v))
         IN Outcome(r.err, None, [hs EXCEPT !["Db"] = r.h], contexts)
    [] base = switch_mode ->
         Outcome("", None, hs, ContextHandler_switch(contexts, "Mode", args[1].v))
    [] OTHER -> Outcome("", None, hs, contexts)

\* func(self, *args) for a function with its option wrappers, outermost
\* first: option_unicode_to_str converts the arguments on the way in, and
\* the function is not called when a conversion fails; a registered option
\* appends its name to the result on the way out.
RECURSIVE callFunction(_, _, _, _)
callFunction(func, args, hs, contexts) ==
  IF func.wraps = <<>> THEN callMethod(func.base, args, hs, contexts)
  ELSE LET outer == Last(func.wraps)
           inner == [func EXCEPT !.wraps = Front(@)]
       IN IF outer = "unicode_to_str"
          THEN IF \E i \in 1..Len(args) : to_str(args[i]).err # ""
               THEN Outcome("UnicodeEncodeError", None, hs, contexts)
               ELSE callFunction(
                      inner, [i \in 1..Len(args) |-> to_str(args[i]).value],
                      hs, contexts)
          ELSE LET r == callFunction(inner, args, hs, contexts)
               IN IF r.err # "" THEN r
                  ELSE [r EXCEPT !.ret = Append(@, outer)]

----------------------------------------------------------------------------
(* TestLibraryType *)

Instances == 1..MaxInstances

\* The identity of the Test Library class' own KeywordsDict object; the
\* KeywordsDict an instance creates has the instance's number.
ClsKeywords == 0

\* The RemoteRobot, which is a Test Library instance too
TheRobot == MaxInstances + 1

\* An object created from the Test Library class, before any __init__
NewInstance == [keywords |-> None, contexts |-> None]

\* A bound Keyword: Keyword(name, func, libinstance=self)
Keyword(name, func, libinstance) ==
  [name |-> name, func |-> func, libinstance |-> libinstance]

\* <object>.keywords: the instance attribute, else the class attribute
keywords_of(object, cls) ==
  IF object.keywords # None THEN object.keywords[1]
  ELSE [id |-> ClsKeywords, table |-> cls]

self_keywords(self, cls) == keywords_of(inst[self], cls)

\* check_keywords: whether an instance-bound .keywords mapping is missing
check_keywords(self, cls) == self_keywords(self, cls).id = ClsKeywords

\* TestLibraryType.__init__: the attributes it sets
TestLibraryType_init(self, cls, context_handlers) ==
  [contexts |-> Some([i \in 1..Len(context_handlers) |->
                        default(context_handlers[i])]),
   keywords |-> Some([id |-> self,
                      table |-> [k \in DOMAIN cls |->
                                   Keyword(k, cls[k], self)]])]

\* [str(name) for name, kw in self.keywords]: the lists it can give
names_of(table) ==
  {[i \in 1..Len(o) |-> str(o[i])] : o \in keys(table)}

\* TestLibraryType.get_keyword_names: the outcomes it can have
get_keyword_names(self, cls) ==
  IF check_keywords(self, cls)
  THEN {Raised("get_keyword_names", self, None, "RuntimeError")}
  ELSE {Returned("get_keyword_names", self, None, names) :
          names \in names_of(self_keywords(self, cls).table)}

\* TestLibraryType.run_keyword: the outcome of the call, with the state the
\* Keyword leaves behind
run_keyword(self, cls, name, args, hs) ==
  LET table == self_keywords(self, cls).table
      unchanged == Outcome("", None, hs, inst[self].contexts)
  IN IF check_keywords(self, cls)
     THEN [unchanged EXCEPT !.err = "RuntimeError"]
     ELSE IF ~hasKey(table, name)
     THEN [unchanged EXCEPT !.err = "KeyError"]
     ELSE LET kw == getitem(table, name)
              r == callFunction(kw.func, args, hs,
                                inst[kw.libinstance].contexts[1])
          IN [r EXCEPT !.contexts = Some(@)]

\* A get_keyword_documentation that answers the reserved names before the
\* check for the instance-bound mapping
get_keyword_documentation_unchecked(self, cls, name) ==
  LET table == self_keywords(self, cls).table
      op == "get_keyword_documentation"
  IN IF name = <<"_", "_", "i", "n", "t", "r", "o", "_", "_">>
     THEN Returned(op, self, name, "")
     ELSE IF name = <<"_", "_", "i", "n", "i", "t", "_", "_">>
     THEN Returned(op, self, name, "")
     ELSE IF check_keywords(self, cls) THEN Raised(op, self, name, "RuntimeError")
     ELSE IF ~hasKey(table, name) THEN Raised(op, self, name, "KeyError")
     ELSE Returned(op, self, name, [doc_of |-> getitem(table, name)])

\* TestLibraryType.get_keyword_documentation
get_keyword_documentation(self, cls, name) ==
  LET table == self_keywords(self, cls).table
      op == "get_keyword_documentation"
  IN IF check_keywords(self, cls) THEN Raised(op, self, name, "RuntimeError")
     ELSE IF name = <<"_", "_", "i", "n", "t", "r", "o", "_", "_">>
     THEN Returned(op, self, name, "")
     ELSE IF name = <<"_", "_", "i", "n", "i", "t", "_", "_">>
     THEN Returned(op, self, name, "")
     ELSE IF ~hasKey(table, name) THEN Raised(op, self, name, "KeyError")
     ELSE Returned(op, self, name, [doc_of |-> getitem(table, name)])

\* TestLibraryType.get_keyword_arguments
get_keyword_arguments(self, cls, name) ==
  LET table == self_keywords(self, cls).table
      op == "get_keyword_arguments"
  IN IF check_keywords(self, cls) THEN Raised(op, self, name, "RuntimeError")
     ELSE IF ~hasKey(table, name) THEN Raised(op, self, name, "KeyError")
     ELSE Returned(op, self, name, [args_of |-> getitem(table, name)])

\* TestLibraryType.__dir__ behind the builtin dir
TestLibraryType_dir(self, cls) ==
  IF check_keywords(self, cls) THEN Raised("__dir__", self, None, "RuntimeError")
  ELSE Returned("__dir__", self, None, dir(self_keywords(self, cls).table))

----------------------------------------------------------------------------
(* testlibrary(): the Test Library class it creates *)

\* keyword_decorator(func, name=keywordname) for each Keyword of the
\* handlers, up to the first that fails
RECURSIVE importKeywords(_, _, _)
importKeywords(decorator, table, names) ==
  IF names = <<>> THEN [err |-> "", keywords |-> table]
  ELSE LET r == KeywordDecoratorType_call(
                  decorator, table, Function(Head(names)), Some(Head(names)))
       IN IF r.err # "" THEN [err |-> r.err, keywords |-> r.keywords]
          ELSE importKeywords(decorator, r.keywords, Tail(names))

\* testlibrary(): the class attributes .keyword and .keywords, or the error
\* that the Keyword decorator raises: for the default options when it is
\* made, for the first Keyword of a handler when it is to store it
testlibrary(default_keyword_options, handler_keywords) ==
  LET r == KeywordDecoratorType_init(default_keyword_options)
  IN IF r.err # "" THEN [err |-> r.err, arg |-> r.arg]
     ELSE LET imported == importKeywords(
                            r.decorator[1], KeywordsDict, handler_keywords)
          IN IF imported.err # ""
             THEN [err |-> imported.err, arg |-> Head(handler_keywords)]
             ELSE [err |-> "", arg |-> None,
                   keyword |-> r.decorator[1],
                   keywords |-> imported.keywords]

\* A Test Library: class TestLibrary(testlibrary(...)), a class without
\* handlers; what @keyword does for its Keyword methods is in Decorate
TestLibrary ==
  LET base == testlibrary(<<>>, <<>>)
  IN [keyword |-> base.keyword, keywords |-> base.keywords]

----------------------------------------------------------------------------
(* The handler classes and the calls made on Test Library instances *)

\* The Keywords that a handler class generates
GeneratedKeywords(h) ==
  IF h = "Mode" THEN <<switch_mode>> ELSE <<open_db, switch_db, close_db>>

\* The handler classes there can be: with their generated Keywords, or with
\* an empty .keywords
HandlerClasses ==
  {[Mode |-> ContextHandler(km), Db |-> SessionHandler(kd)] :
     km \in {<<>>, GeneratedKeywords("Mode")},
     kd \in {<<>>, GeneratedKeywords("Db")}}

\* The Keywords of the context handlers and then of the session handlers
RECURSIVE handler_keywords(_, _)
handler_keywords(handlercls, hs) ==
  IF handlercls = <<>> THEN <<>>
  ELSE hs[Head(handlercls)].keywords \o handler_keywords(Tail(handlercls), hs)

\* The calls a Robot Framework makes through the Dynamic Test Library API,
\* by the names as given to the decorator and by their CamelCase forms
ApiCalls ==
  {[name |-> go_up, args |-> <<a>>] : a \in {Str("World"), Unicode("World")}}
  \cup {[name |-> camelize(go_up), args |-> <<Str("World")>>]}
  \cup {[name |-> n, args |-> <<Str(SessionNameOf[1]), Str(1)>>] :
          n \in {open_db, camelize(open_db)}}

Names ==
  {c.name : c \in ApiCalls}
  \cup {<<"_", "_", "i", "n", "t", "r", "o", "_", "_">>,
        <<"_", "_", "i", "n", "i", "t", "_", "_">>}

\* The class made by testlibrary() without handlers, no instance made yet
Init ==
  /\ clsKeywords = TestLibrary.keywords
  /\ clsHandlers = [context_handlers |-> <<>>, session_handlers |-> <<>>]
  /\ keyword = TestLibrary.keyword
  /\ inst = [i \in Instances |-> NewInstance]
  /\ handlers \in HandlerClasses
  /\ threads = <<>>
  /\ result = NoResult

\* TestLibrary = testlibrary(default_keyword_options=options,
\* context_handlers=..., session_handlers=...): a new class, or the error
MakeLibrary(options, context_handlers, session_handlers) ==
  \E r \in {testlibrary(
              options,
              handler_keywords(context_handlers \o session_handlers, handlers))} :
    /\ result' = [op |-> "testlibrary", via |-> 0,
                  arg |-> [options |-> options,
                           context_handlers |-> context_handlers,
                           session_handlers |-> session_handlers],
                  err |-> r.err, ret |-> r.arg]
    /\ IF r.err # ""
       THEN UNCHANGED <<clsKeywords, clsHandlers, keyword, inst>>
       ELSE /\ clsKeywords' = r.keywords
            /\ clsHandlers' = [context_handlers |-> context_handlers,
                               session_handlers |-> session_handlers]
            /\ keyword' = r.keyword
            /\ inst' = [i \in Instances |-> NewInstance]
    /\ UNCHANGED <<handlers, threads>>

Construct(self) ==
  /\ inst' = [inst EXCEPT ![self] = TestLibraryType_init(
                                      self, clsKeywords,
                                      clsHandlers.context_handlers)]
  /\ result' = Returned("__init__", self, None, None)
  /\ UNCHANGED <<clsKeywords, clsHandlers, keyword, handlers, threads>>

GetKeywordNames(self) ==
  /\ result' \in get_keyword_names(self, clsKeywords)
  /\ UNCHANGED <<clsKeywords, clsHandlers, keyword, inst, handlers, threads>>

RunKeyword(self, call) ==
  \E r \in {run_keyword(self, clsKeywords, call.name, call.args, handlers)} :
    /\ handlers' = r.handlers
    /\ inst' = [inst EXCEPT ![self].contexts = r.contexts]
    /\ result' = [op |-> "run_keyword", via |-> self, arg |-> call,
                  err |-> r.err, ret |-> r.ret]
    /\ UNCHANGED <<clsKeywords, clsHandlers, keyword, threads>>

GetKeywordDocumentation(self, name) ==
  /\ result' = get_keyword_documentation(self, clsKeywords, name)
  /\ UNCHANGED <<clsKeywords, clsHandlers, keyword, inst, handlers, threads>>

GetKeywordArguments(self, name) ==
  /\ result' = get_keyword_arguments(self, clsKeywords, name)
  /\ UNCHANGED <<clsKeywords, clsHandlers, keyword, inst, handlers, threads>>

\* dir(<instance>)
Dir(self) ==
  /\ result' = TestLibraryType_dir(self, clsKeywords)
  /\ UNCHANGED <<clsKeywords, clsHandlers, keyword, inst, handlers, threads>>

\* <instance>.<identifier_name>: the currently active session, a property
\* of a class that was made with the session handler
GetSession(self, h) ==
  /\ h \in elements(clsHandlers.session_handlers)
  /\ \E r \in {session(handlers[h])} :
       result' = [op |-> "session", via |-> self, arg |-> h,
                  err |-> r.err, ret |-> r.ret]
  /\ UNCHANGED <<clsKeywords, clsHandlers, keyword, inst, handlers, threads>>

\* <instance>.<handler name in lower case>: the name of the active context,
\* a property of a class that was made with the context handler
GetContext(self, h) ==
  /\ h \in elements(clsHandlers.context_handlers)
  /\ \E r \in {context(inst[self].contexts, h)} :
       result' = [op |-> "context", via |-> self, arg |-> h,
                  err |-> r.err, ret |-> r.ret]
  /\ UNCHANGED <<clsKeywords, clsHandlers, keyword, inst, handlers, threads>>

\* The switch of the context of a handler on an instance
SwitchContext(self, h, name) ==
  /\ inst[self].contexts # None
  /\ h \in elements(clsHandlers.context_handlers)
  /\ inst' = [inst EXCEPT ![self].contexts =
                Some(ContextHandler_switch(@[1], h, name))]
  /\ result' = Returned("switch_context", self, [handler |-> h, name |-> name],
                        None)
  /\ UNCHANGED <<clsKeywords, clsHandlers, keyword, handlers, threads>>

\* The operations of a session handler class
Open(h, name, payload) ==
  \E r \in {SessionHandler_open(handlers[h], name, payload)} :
    /\ handlers' = [handlers EXCEPT ![h] = r.h]
    /\ result' = [op |-> "open", via |-> 0,
                  arg |-> [handler |-> h, name |-> Some(name),
                           payload |-> payload],
                  err |-> r.err, ret |-> None]
    /\ UNCHANGED <<clsKeywords, clsHandlers, keyword, inst, threads>>

Switch(h, name) ==
  \E r \in {SessionHandler_switch(handlers[h], name)} :
    /\ handlers' = [handlers EXCEPT ![h] = r.h]
    /\ result' = [op |-> "switch", via |-> 0,
                  arg |-> [handler |-> h, name |-> Some(name), payload |-> 0],
                  err |-> r.err, ret |-> None]
    /\ UNCHANGED <<clsKeywords, clsHandlers, keyword, inst, threads>>

Close(h, name) ==
  \E r \in {SessionHandler_close(handlers[h], name)} :
    /\ handlers' = [handlers EXCEPT ![h] = r.h]
    /\ result' = [op |-> "close", via |-> 0,
                  arg |-> [handler |-> h, name |-> name, payload |-> 0],
                  err |-> r.err, ret |-> None]
    /\ UNCHANGED <<clsKeywords, clsHandlers, keyword, inst, threads>>

\* The session handlers: making classes with them, their operations and
\* the session property
Next ==
  \/ \E context_handlers \in {<<>>, ContextHandlers},
        session_handlers \in {<<>>, <<"Db">>} :
       MakeLibrary(<<>>, context_handlers, session_handlers)
  \/ \E h \in SessionHandlers, name \in SessionNames, payload \in Payloads :
       Open(h, name, payload)
  \/ \E h \in SessionHandlers, name \in SessionNames : Switch(h, name)
  \/ \E h \in SessionHandlers, name \in {None} \cup {Some(n) : n \in SessionNames} :
       Close(h, name)
  \/ \E self \in Instances, h \in SessionHandlers : GetSession(self, h)

Spec == Init /\ [][Next]_vars

----------------------------------------------------------------------------
(* Decorating the Keyword methods of a Test Library class *)

\* The names asked of the decorator: options, a name that is no option,
\* and attributes that the decorator has
OptionNames ==
  RegisteredOptions
  \cup {"nonexistent", "no_options", "reset_options", "options",
        "librarycls", "option_A", "__call__", "__doc__"}

DefaultOptions ==
  {<<>>, <<"unicode_to_str">>, <<"nonexistent">>, <<"unicode_to_str", "nonexistent">>}

\* keyword.<name>
WithOption(name) ==
  \E r \in {KeywordDecoratorType_getattribute(keyword, clsKeywords, name)} :
    /\ r.decorator # None => Len(r.decorator[1].options) <= MaxOptions
    /\ IF r.err # ""
       THEN /\ result' = Raised("with_option", 0, name, r.err)
            /\ UNCHANGED keyword
       ELSE IF r.decorator # None
       THEN /\ result' = Returned("with_option", 0, name, r.decorator[1].options)
            /\ keyword' = r.decorator[1]
       ELSE /\ result' = Returned("with_option", 0, name, r.value[1])
            /\ UNCHANGED keyword
    /\ UNCHANGED <<clsKeywords, clsHandlers, inst, handlers, threads>>

\* keyword(func, name)
Decorate(func, name) ==
  \E r \in {KeywordDecoratorType_call(keyword, clsKeywords, func, name)} :
    /\ clsKeywords' = r.keywords
    /\ result' = [op |-> "keyword", via |-> 0,
                  arg |-> [func |-> func, name |-> name], err |-> r.err,
                  ret |-> IF r.err = "" THEN Some(r.func) ELSE None]
    /\ UNCHANGED <<clsHandlers, keyword, inst, handlers, threads>>

----------------------------------------------------------------------------
(* robottools.remote: the module and the methods of its RemoteRobot *)

LibraryNameOf == <<"LibA", "LibB", "LibC", "LibD">>
Libraries == {LibraryNameOf[i] : i \in 1..MaxLibraries}

\* dir(lib) of a Test Library that the robot imported: its Keyword names,
\* sorted. LibA and LibB both have a Keyword Ping.
library_dir(lib) ==
  CASE lib = "LibA" -> <<"Echo", "Ping">>
    [] lib = "LibB" -> <<"Ping", "Wait">>
    [] lib = "LibC" -> <<"Zip">>
    [] OTHER -> <<>>

\* The lists of libraries a RemoteRobot is made with
LibraryLists ==
  {l \in UNION {[1..n -> Libraries] : n \in 0..MaxLibraries} :
     \A i, j \in 1..Len(l) : l[i] = l[j] => i = j}

\* The import of the module: TestLibrary = testlibrary(), then
\* keyword(RobotRemoteServer.stop_remote_server), whose error ends the
\* import before the class RemoteRobot is made
RemoteTestLibrary ==
  LET base == testlibrary(<<>>, <<>>)
      r == KeywordDecoratorType_call(
             base.keyword, base.keywords, Function(stop_remote_server), None)
  IN [err |-> r.err, keyword |-> base.keyword, keywords |-> r.keywords]

\* chain(*map(dir, values)): the names of the libraries one after another
RECURSIVE chain(_)
chain(values) ==
  IF values = <<>> THEN <<>>
  ELSE library_dir(Head(values)) \o chain(Tail(values))

\* list(chain(*map(dir, self.robot._libraries.values()))): _libraries is a
\* dict by library name, whose values() come in no order that the code
\* fixes, so these are the lists it can give
RemoteLibrary_get_keyword_names(libraries) ==
  {chain(values) : values \in orders(libraries)}

\* SimpleXMLRPCServer.register_function: self.funcs[name] = function
register_function(funcs, function, name) ==
  [n \in DOMAIN funcs \cup {name} |-> IF n = name THEN function ELSE funcs[n]]

\* RemoteRobot._register_keyword
RemoteRobot_register_keyword(funcs, name, kw) ==
  register_function(
    register_function(
      register_function(
        register_function(funcs, [call |-> "keyword", keyword |-> kw], name),
        [call |-> "__repr__", keyword |-> kw], name \o ".__repr__"),
      [call |-> "getdoc", keyword |-> kw], name \o ".getdoc"),
    [call |-> "__nonzero__", keyword |-> kw], name \o ".__nonzero__")

\* RemoteRobot._register_library_keywords, for the names not yet registered
RECURSIVE RemoteRobot_register_keywords(_, _)
RemoteRobot_register_keywords(funcs, keywordnames) ==
  IF keywordnames = <<>> THEN funcs
  ELSE RemoteRobot_register_keywords(
         RemoteRobot_register_keyword(
           funcs, Head(keywordnames), Head(keywordnames)),
         Tail(keywordnames))

\* RobotRemoteServer._register_functions: the Dynamic Test Library API
ServerFunctions ==
  {"get_keyword_names", "run_keyword", "get_keyword_arguments",
   "get_keyword_documentation", "stop_remote_server"}

\* SimpleXMLRPCServer.register_introspection_functions
IntrospectionFunctions ==
  {"system.listMethods", "system.methodHelp", "system.methodSignature"}

\* RemoteRobot._register_functions: the functions by name, which are the
\* same in whatever order self._libraries.values() gives the libraries
RemoteRobot_register_functions(libraries, register_keywords, introspection) ==
  LET server == [n \in ServerFunctions |-> [call |-> "server", keyword |-> n]]
      values == CHOOSE values \in orders(libraries) : TRUE
      registered == IF register_keywords
                    THEN RemoteRobot_register_keywords(server, chain(values))
                    ELSE server
  IN IF introspection
     THEN [n \in DOMAIN registered \cup IntrospectionFunctions |->
             IF n \in IntrospectionFunctions
             THEN [call |-> "system", keyword |-> n] ELSE registered[n]]
     ELSE registered

\* RemoteRobot.__init__: the attributes of the robot; libraries stands for
\* the keys of self._libraries after self.Import(lib) of each library given
RemoteRobot_init(libraries, allow_import, register_keywords, introspection) ==
  [keywords |-> TestLibraryType_init(
                 TheRobot, RemoteTestLibrary.keywords, <<>>).keywords,
   register_keywords |-> register_keywords,
   introspection |-> introspection,
   libraries |-> elements(libraries),
   allow_import |-> allow_import,
   funcs |-> RemoteRobot_register_functions(
               elements(libraries), register_keywords, introspection)]

\* RemoteRobot.get_keyword_names: the outcomes it can have
RemoteRobot_get_keyword_names(self) ==
  IF keywords_of(self, RemoteTestLibrary.keywords).id = ClsKeywords
  THEN {Raised("RemoteRobot.get_keyword_names", 0, None, "RuntimeError")}
  ELSE {Returned("RemoteRobot.get_keyword_names", 0, None,
                 libnames \o names) :
          libnames \in RemoteLibrary_get_keyword_names(self.libraries),
          names \in names_of(
                     keywords_of(self, RemoteTestLibrary.keywords).table)}

\* The import of a library at run time: refused unless the name is in
\* self.allow_import; else self.Import(name), which puts the library into
\* self._libraries under its name, and in registration mode
\* self._register_library_keywords(lib)
RemoteRobot_import_remote_library(self, name) ==
  IF \A i \in 1..Len(self.allow_import) : self.allow_import[i] # name
  THEN [err |-> "ImportNotAllowedError", robot |-> self]
  ELSE [err |-> "",
        robot |-> [self EXCEPT
          !.libraries = @ \cup {name},
          !.funcs = IF self.register_keywords
                    THEN RemoteRobot_register_keywords(@, library_dir(name))
                    ELSE @]]

\* SimpleXMLRPCServer._dispatch: func(*params) of a function that
\* _register_keyword registered. The functions registered for .getdoc and
\* .__nonzero__ are lambdas without parameters and .__repr__ is a bound
\* method without parameters. The functions that RobotRemoteServer and
\* SimpleXMLRPCServer register themselves are defined by those packages;
\* what a call of them gives is not defined here.
dispatch(function, params) ==
  CASE function.call = "keyword" ->
         [err |-> "", ret |-> [ran |-> function.keyword, args |-> params]]
    [] function.call \in {"__repr__", "getdoc", "__nonzero__"} /\ params # <<>> ->
         [err |-> "TypeError", ret |-> None]
    [] function.call = "__repr__" ->
         [err |-> "", ret |-> [repr_of |-> function.keyword]]
    [] function.call = "getdoc" ->
         [err |-> "", ret |-> [doc_of |-> function.keyword]]
    [] function.call = "__nonzero__" ->
         [err |-> "", ret |-> TRUE]

\* import robottools.remote
ImportRemote ==
  /\ result' = [op |-> "import robottools.remote", via |-> 0,
                arg |-> stop_remote_server, err |-> RemoteTestLibrary.err,
                ret |-> None]
  /\ UNCHANGED <<clsKeywords, clsHandlers, keyword, inst, handlers, threads>>

DecoratorNext ==
  \/ \E options \in DefaultOptions : MakeLibrary(options, <<>>, <<>>)
  \/ \E name \in OptionNames : WithOption(name)
  \/ \E name \in {None, Some(hi), Some(<<>>)} : Decorate(Function(go_up), name)
  \/ ImportRemote

DecoratorSpec == Init /\ [][DecoratorNext]_vars

\* The Dynamic Test Library API of the instances
ApiNext ==
  \/ \E context_handlers \in {<<>>, ContextHandlers} :
       MakeLibrary(<<>>, context_handlers, <<>>)
  \/ Decorate(Function(go_up), None)
  \/ \E self \in Instances : Construct(self)
  \/ \E self \in Instances : GetKeywordNames(self)
  \/ \E self \in Instances, call \in ApiCalls : RunKeyword(self, call)
  \/ \E self \in Instances, name \in Names : GetKeywordDocumentation(self, name)
  \/ \E self \in Instances, name \in Names : GetKeywordArguments(self, name)
  \/ \E self \in Instances : Dir(self)
  \/ \E self \in Instances, h \in elements(ContextHandlers) : GetContext(self, h)
  \/ \E self \in Instances, h \in elements(ContextHandlers), name \in ContextNames :
       SwitchContext(self, h, name)

ApiSpec == Init /\ [][ApiNext]_vars

----------------------------------------------------------------------------
(* Request handler threads: each runs one operation of the session        *)
(* handler. RemoteLibrary.run_keyword and TestLibraryType.run_keyword call *)
(* what they are asked for with no lock taken, and no lock is made         *)
(* anywhere, so the statements of the operations of two threads            *)
(* interleave.                                                             *)

Threads == 1..MaxThreads

\* The operations of the session handler that the threads are asked for
SessionCalls ==
  {[name |-> open_db, args |-> <<Str(n), Str(p)>>] :
     n \in SessionNames, p \in Payloads}
  \cup {[name |-> switch_db, args |-> <<Str(n)>>] : n \in SessionNames}
  \cup {[name |-> close_db, args |-> <<Str(n)>>] : n \in SessionNames}
  \cup {[name |-> close_db, args |-> <<>>]}

IdleThread == [pc |-> "idle", call |-> None, session |-> None, err |-> ""]

handler == handlers["Db"]

done(t, err) ==
  threads' = [threads EXCEPT ![t].pc = "done", ![t].err = err]

\* A thread is asked for an operation
Accept(t, call) ==
  /\ threads[t].pc = "idle"
  /\ threads' = [threads EXCEPT ![t].pc = "check", ![t].call = Some(call)]
  /\ UNCHANGED <<clsKeywords, clsHandlers, keyword, inst, handlers, result>>

\* The operation looks its session up
Check(t) ==
  /\ threads[t].pc = "check"
  /\ LET call == threads[t].call[1]
         target == IF call.args # <<>> THEN Some(call.args[1].v)
                   ELSE IF handler.session # None
                   THEN Some(handler.session[1].name)
                   ELSE None
         running == target # None /\ target[1] \in DOMAIN handler.sessions
     IN CASE call.name = open_db ->
               IF running THEN done(t, "DuplicateSessionError")
               ELSE threads' = [threads EXCEPT
                      ![t].pc = "insert",
                      ![t].session =
                        Some(Session(call.args[1].v, call.args[2].v))]
          [] call.name = switch_db ->
               IF ~running THEN done(t, "NoSuchSessionError")
               ELSE threads' = [threads EXCEPT
                      ![t].pc = "set_current",
                      ![t].session = Some(handler.sessions[target[1]])]
          [] OTHER ->
               IF ~running THEN done(t, "NoActiveSessionError")
               ELSE threads' = [threads EXCEPT
                      ![t].pc = "remove",
                      ![t].session = Some(handler.sessions[target[1]])]
  /\ UNCHANGED <<clsKeywords, clsHandlers, keyword, inst, handlers, result>>

\* open: sessions[name] = session
Insert(t) ==
  /\ threads[t].pc = "insert"
  /\ LET s == threads[t].session[1]
     IN handlers' = [handlers EXCEPT !["Db"].sessions =
          [n \in DOMAIN handler.sessions \cup {s.name} |->
             IF n = s.name THEN s ELSE handler.sessions[n]]]
  /\ threads' = [threads EXCEPT ![t].pc = "set_current"]
  /\ UNCHANGED <<clsKeywords, clsHandlers, keyword, inst, result>>

\* open, switch: the session becomes the current one
SetCurrent(t) ==
  /\ threads[t].pc = "set_current"
  /\ handlers' = [handlers EXCEPT !["Db"].session = threads[t].session]
  /\ done(t, "")
  /\ UNCHANGED <<clsKeywords, clsHandlers, keyword, inst, result>>

\* close: del sessions[name]
Remove(t) ==
  /\ threads[t].pc = "remove"
  /\ LET s == threads[t].session[1]
     IN IF s.name \in DOMAIN handler.sessions
        THEN /\ handlers' = [handlers EXCEPT !["Db"].sessions =
                  [n \in DOMAIN handler.sessions \ {s.name} |->
                     handler.sessions[n]]]
             /\ threads' = [threads EXCEPT ![t].pc = "clear"]
        ELSE /\ done(t, "KeyError")
             /\ UNCHANGED handlers
  /\ UNCHANGED <<clsKeywords, clsHandlers, keyword, inst, result>>

\* close: the closed session is no longer the current one
Clear(t) ==
  /\ threads[t].pc = "clear"
  /\ handlers' = [handlers EXCEPT !["Db"].session =
       IF @ = threads[t].session THEN None ELSE @]
  /\ done(t, "")
  /\ UNCHANGED <<clsKeywords, clsHandlers, keyword, inst, result>>

\* The handler classes with no session, or with the session a, opened
\* before the threads start
ThreadsInit ==
  /\ clsKeywords = TestLibrary.keywords
  /\ clsHandlers = [context_handlers |-> <<>>, session_handlers |-> <<>>]
  /\ keyword = TestLibrary.keyword
  /\ inst = [i \in Instances |-> NewInstance]
  /\ \E hs \in HandlerClasses :
       handlers \in
         {hs, [hs EXCEPT !["Db"] =
                 SessionHandler_open(hs["Db"], SessionNameOf[1], 1).h]}
  /\ threads = [t \in Threads |-> IdleThread]
  /\ result = NoResult

ThreadsNext ==
  \/ \E t \in Threads, call \in SessionCalls : Accept(t, call)
  \/ \E t \in Threads : Check(t)
  \/ \E t \in Threads : Insert(t)
  \/ \E t \in Threads : SetCurrent(t)
  \/ \E t \in Threads : Remove(t)
  \/ \E t \in Threads : Clear(t)

ThreadsSpec == ThreadsInit /\ [][ThreadsNext]_vars

----------------------------------------------------------------------------
(* Properties of the Test Library class and its instances *)

TransportCalls ==
  {"get_keyword_names", "run_keyword",
   "get_keyword_documentation", "get_keyword_arguments"}

constructed(self) == inst[self].keywords # None

\* C1, as stated: a class can be made with a context handler and a session
\* handler that bring their generated Keywords, the operation tables of two
\* instances of it are distinct objects with the same names, and the
\* sessions and contexts of one instance are not those of another.
C1_OtherInstanceUnchanged ==
  (/\ result.op = "testlibrary"
   /\ result.arg.context_handlers # <<>>
   /\ result.arg.session_handlers # <<>>
   /\ handler_keywords(result.arg.context_handlers, handlers) # <<>>
   /\ handler_keywords(result.arg.session_handlers, handlers) # <<>>) =>
    /\ result.err = ""
    /\ \A i, j \in Instances :
         i # j =>
           LET a == TestLibraryType_init(i, clsKeywords, ContextHandlers)
               b == TestLibraryType_init(j, clsKeywords, ContextHandlers)
           IN /\ a.keywords[1].id # b.keywords[1].id
              /\ DOMAIN a.keywords[1].table = DOMAIN b.keywords[1].table

\* C4: on an instance without an instance-bound .keywords mapping each of
\* the four calls of the Dynamic Test Library API raises RuntimeError for
\* every argument and changes nothing; on an instance whose __init__ has
\* run the mapping is not the class' one and none of them raises it.
C4_NotReadyBeforeInit ==
  [][\A self \in Instances :
       (result'.op \in TransportCalls /\ result'.via = self) =>
         /\ ~constructed(self) =>
              /\ result'.err = "RuntimeError"
              /\ result'.ret = None
              /\ handlers' = handlers
              /\ inst' = inst
         /\ constructed(self) =>
              /\ inst[self].keywords[1].id # ClsKeywords
              /\ result'.err # "RuntimeError"]_vars

\* The documentation of __intro__ was asked of an instance before __init__
\* while the __init__ of another instance has run.
C4_Witness ==
  /\ result.op = "get_keyword_documentation"
  /\ result.arg = <<"_", "_", "i", "n", "t", "r", "o", "_", "_">>
  /\ ~constructed(result.via)
  /\ result.err = "RuntimeError"
  /\ \E self \in Instances : constructed(self)

\* C5, as stated: a Keyword method given to the decorator of the class is
\* registered under its key, so that get_keyword_names() of an instance made
\* then lists its CamelCase name and run_keyword with that name runs it.
C5_CamelCaseNames ==
  result.op = "keyword" =>
    /\ result.err = ""
    /\ \A self \in Instances :
         LET key == IF result.arg.name = None THEN func_name(result.arg.func)
                    ELSE result.arg.name[1]
             table == TestLibraryType_init(self, clsKeywords, <<>>)
                        .keywords[1].table
         IN /\ \A names \in names_of(table) :
                 str(camelize(key)) \in elements(names)
            /\ hasKey(table, camelize(key))

----------------------------------------------------------------------------
(* Properties of the session handlers *)

\* The current session is one of the running sessions
currentIsRunning(h) ==
  h.session # None =>
    /\ h.session[1].name \in DOMAIN h.sessions
    /\ h.sessions[h.session[1].name] = h.session[1]

\* C6: after any open, switch and close the current session of a handler is
\* unset or one of its running sessions; closing the current session leaves
\* it unset; and the session property raises its "No active session." error
\* exactly when it is unset.
C6_CurrentSessionIsRunning ==
  [][\A h \in SessionHandlers :
       /\ currentIsRunning(handlers[h])'
       /\ (/\ result'.op = "close" /\ result'.err = ""
           /\ handlers[h].session # None
           /\ \/ result'.arg.name = None
              \/ result'.arg.name[1] = handlers[h].session[1].name) =>
            handlers'[h].session = None
       /\ (result'.op = "session" /\ result'.arg = h) =>
            /\ (result'.err # "") = (handlers[h].session = None)
            /\ result'.err \in {"", "SessionError: No active session."}
            /\ result'.err = "" => result'.ret = handlers[h].session]_vars

\* The current session was closed while another one runs, and the session
\* property of a class made with the handler was then asked for.
C6_Witness ==
  /\ result.op = "session"
  /\ result.err = "SessionError: No active session."
  /\ "Db" \in elements(clsHandlers.session_handlers)
  /\ handlers["Db"].session = None
  /\ handlers["Db"].sessions # NoSessions

\* C7: a session operation that fails leaves the sessions and the current
\* session as they were: open of a name that is running fails with
\* DuplicateSessionError, switch to a name that is not running with
\* NoSuchSessionError, close without a name and without a current session
\* with NoActiveSessionError.
C7_FailedCallChangesNothing ==
  [][\A h \in SessionHandlers :
       /\ (result'.op \in {"open", "switch", "close"} /\ result'.err # "") =>
            /\ handlers' = handlers
            /\ inst' = inst
       /\ (result'.op = "open"
             /\ result'.arg.name[1] \in DOMAIN handlers[h].sessions) =>
            result'.err = "DuplicateSessionError"
       /\ (result'.op = "switch"
             /\ result'.arg.name[1] \notin DOMAIN handlers[h].sessions) =>
            result'.err = "NoSuchSessionError"
       /\ (result'.op = "close" /\ result'.arg.name = None
             /\ handlers[h].session = None) =>
            result'.err = "NoActiveSessionError"]_vars

\* A second open of the current session's name with another payload failed:
\* the session still has its first payload and is still the current one.
C7_Witness ==
  /\ result.op = "open"
  /\ result.err = "DuplicateSessionError"
  /\ handlers["Db"].session # None
  /\ handlers["Db"].session[1].name = result.arg.name[1]
  /\ handlers["Db"].session[1].payload # result.arg.payload
  /\ handlers["Db"].sessions[result.arg.name[1]] = handlers["Db"].session[1]

----------------------------------------------------------------------------
(* Properties of the Keyword decorator *)

\* C2, as stated: an option is put in front of the decorator's options, and
\* decorating func with the options B, A (A added first, B last) stores
\* B(A(func)), the option added last outermost; two options that each
\* append their name to the result give the names in the order B, A.
C2_LastAddedOutermost ==
  [][/\ (result'.op = "with_option" /\ hasOption(result'.arg)) =>
          /\ result'.err = ""
          /\ keyword'.options = <<result'.arg>> \o keyword.options
     /\ (result'.op = "keyword" /\ keyword.options = <<"B", "A">>) =>
          /\ result'.err = ""
          /\ result'.ret =
               Some(applyOption("B", applyOption("A", result'.arg.func)))
          /\ hasKey(clsKeywords', go_up) \/ hasKey(clsKeywords', hi)
          /\ callFunction(result'.ret[1], <<Str("World")>>, handlers, <<>>).ret
               = <<[hello |-> Str("World")], "B", "A">>]_vars

\* C3, as stated: an option name that is not registered, and that is no
\* attribute of the decorator either, makes keyword.<name> fail with
\* InvalidKeywordOption and leaves the Keywords of the class and the
\* decorator's options as they were.
C3_InvalidKeywordOption ==
  [][(/\ result'.op = "with_option"
      /\ ~hasOption(result'.arg)
      /\ result'.arg \notin DecoratorAttributes) =>
       /\ result'.err = "InvalidKeywordOption"
       /\ clsKeywords' = clsKeywords
       /\ keyword' = keyword]_vars

----------------------------------------------------------------------------
(* Properties of concurrent requests *)

quiescent == \A t \in Threads : threads[t].pc \in {"idle", "done"}

succeeded(t, name) ==
  /\ threads[t].pc = "done" /\ threads[t].err = ""
  /\ threads[t].call[1].name = name

\* C8, as stated: the session Keywords of concurrent requests run one at a
\* time, so what they leave behind is what some serial order leaves behind:
\* the current session is one of the running sessions, and of two opens of
\* one name, with no close of it, at most one succeeds.
C8_SerializedByLock ==
  quiescent =>
    /\ currentIsRunning(handler)
    /\ \A t, u \in Threads :
         (/\ t # u
          /\ succeeded(t, open_db) /\ succeeded(u, open_db)
          /\ threads[t].call[1].args[1] = threads[u].call[1].args[1]) =>
           \E v \in Threads :
             /\ succeeded(v, close_db)
             /\ threads[v].session[1].name = threads[t].call[1].args[1].v

----------------------------------------------------------------------------
(* Properties of robottools.remote *)

remoteImported == result.op = "import robottools.remote"

\* C9, as stated: the module can be remoteImported, and a RemoteRobot in
\* registration mode has for every Keyword name N of its libraries the
\* functions N, N.__repr__, N.getdoc and N.__nonzero__ besides the calls of
\* the Dynamic Test Library API, and a call of N.__nonzero__ gives true.
C9_NonzeroForAnyParams ==
  remoteImported =>
    /\ result.err = ""
    /\ \A libraries \in LibraryLists :
         LET funcs == RemoteRobot_register_functions(
                        elements(libraries), TRUE, TRUE)
         IN /\ ServerFunctions \subseteq DOMAIN funcs
            /\ \A names \in RemoteLibrary_get_keyword_names(
                               elements(libraries)) :
                 \A n \in elements(names) :
                   /\ {n, n \o ".__repr__", n \o ".getdoc",
                       n \o ".__nonzero__"} \subseteq DOMAIN funcs
                   /\ \A params \in {<<>>, <<Str("x")>>} :
                        dispatch(funcs[n \o ".__nonzero__"], params)
                          = [err |-> "", ret |-> TRUE]

\* C10, as stated: the module can be remoteImported, and get_keyword_names() of a
\* RemoteRobot gives the union of the Keyword names of its libraries and of
\* its own Keywords, each name once.
C10_NamesOnce ==
  remoteImported =>
    /\ result.err = ""
    /\ \A libraries \in LibraryLists :
         \A r \in RemoteRobot_get_keyword_names(
                    RemoteRobot_init(libraries, <<>>, TRUE, TRUE)) :
           /\ r.err = ""
           /\ elements(r.ret) =
                UNION {elements(library_dir(lib)) : lib \in elements(libraries)}
                \cup {str(camelize(stop_remote_server))}
           /\ \A i, j \in 1..Len(r.ret) : r.ret[i] = r.ret[j] => i = j

\* C11, as stated: the module can be remoteImported, and the import of a library
\* at run time succeeds exactly for the names the RemoteRobot was made to
\* allow; a refused import fails with an error and leaves the libraries and
\* the registered functions as they were.
C11_ImportGate ==
  remoteImported =>
    /\ result.err = ""
    /\ \A libraries \in LibraryLists, allow_import \in LibraryLists,
          name \in Libraries :
         LET self == RemoteRobot_init(libraries, allow_import, TRUE, TRUE)
             r == RemoteRobot_import_remote_library(self, name)
         IN IF name \in elements(allow_import)
            THEN r.err = "" /\ name \in r.robot.libraries
            ELSE r.err # "" /\ r.robot = self

====
